---- MODULE Spec2Model ----
(***************************************************************************)
(* Trace-context propagation and correlation core of the bookapp service:  *)
(* the Kafka header carriers (book_ingestion.rs), the consumer loop, the   *)
(* Sentry/OpenTelemetry correlation layer (sentry_correlation.rs), the     *)
(* subscriber assembly (tracing_config.rs), the shutdown sequence of main  *)
(* (main.rs) and the context injection of the generated client (client/).  *)
(***************************************************************************)
EXTENDS Integers, Sequences, FiniteSets, TLC

(***************************************************************************)
(* Bounds of the model.                                                    *)
(***************************************************************************)
\* largest trace id / span id a remote peer puts on the wire
MaxRemoteId == 2
\* largest number of header entries of one received Kafka message
MaxHeaders == 2
\* number of messages the consumer loop receives in one run
MaxMessages == 2
\* number of tracing events dispatched in one run of the subscriber
MaxEvents == 2
\* number of spans created in one run of the subscriber
MaxSpans == 2
\* number of inbound HTTP requests in one run
MaxRequests == 1
\* number of books the catalog returns to get_all_books
MaxBooks == 1
\* largest number of headers of a request handed to RequestCarrier
MaxRequestHeaders == 2
\* largest id the serial of the books table hands out
MaxBookId == 1
\* number of threads that call the tracing initialisation
MaxCallers == 3
\* number of calls of the tracing initialisation one thread makes
MaxCalls == 2

(***************************************************************************)
(* Program constants.                                                      *)
(***************************************************************************)
\* width of the otel.trace_id tag, "{:032x}"
TraceIdHexLen == 32
\* width of the otel.span_id tag, "{:016x}"
SpanIdHexLen == 16
\* books.iter().take(5)
TakeLimit == 5

(***************************************************************************)
(* Hexadecimal rendering and parsing.  Text is a sequence of one-character *)
(* strings, so that rendering and parsing are computed, not assumed.       *)
(***************************************************************************)
HexDigits == <<"0", "1", "2", "3", "4", "5", "6", "7",
               "8", "9", "a", "b", "c", "d", "e", "f">>

RECURSIVE HexRaw(_)
\* the digits of n without padding, most significant first ("" for 0)
HexRaw(n) == IF n = 0 THEN <<>> ELSE Append(HexRaw(n \div 16), HexDigits[(n % 16) + 1])

RECURSIVE Zeros(_)
Zeros(k) == IF k <= 0 THEN <<>> ELSE <<"0">> \o Zeros(k - 1)

\* format!("{:0<w>x}", n): lowercase, zero-padded to at least w digits
HexFmt(n, w) == Zeros(w - Len(HexRaw(n))) \o HexRaw(n)

\* the value of every hex digit
DigitTable ==
    [c \in {HexDigits[i] : i \in 1..16} |-> (CHOOSE i \in 1..16 : HexDigits[i] = c) - 1]

IsHexDigit(c) == c \in DOMAIN DigitTable

DigitVal(c) == DigitTable[c]

IsLowerHex(s) == \A i \in 1..Len(s) : IsHexDigit(s[i])

RECURSIVE HexValTo(_, _)
\* value of the first k characters of a lowercase hex text
HexValTo(s, k) == IF k = 0 THEN 0 ELSE 16 * HexValTo(s, k - 1) + DigitVal(s[k])

\* value of a lowercase hex text; leading zeros contribute nothing
HexVal(s) == HexValTo(s, Len(s))

(***************************************************************************)
(* Span contexts.                                                          *)
(***************************************************************************)
SpanContext(t, s, f, r) == [trace_id |-> t, span_id |-> s, flags |-> f, remote |-> r]

\* SpanContext::empty_context(): what an OtelContext without a span yields
InvalidContext == SpanContext(0, 0, 0, FALSE)

\* SpanContext::is_valid
IsValid(cx) == cx.trace_id # 0 /\ cx.span_id # 0

RemoteIds == 1..MaxRemoteId

\* the contexts the received messages and requests of the model carry
WireContexts == {SpanContext(t, MaxRemoteId + 1 - t, 1, TRUE) : t \in RemoteIds}

\* ids drawn by the SDK's RandomIdGenerator: the n-th id of this process.
\* Random 128/64-bit ids are taken to be fresh: they never repeat and never
\* equal an id a remote peer sent.
NewId(n) == 160 + n

\* ids used to exercise the carriers: remote ids and locally drawn ones
SampleIds == RemoteIds \cup {NewId(1), NewId(2)}

SampleContexts == {SpanContext(t, s, f, FALSE) : t \in SampleIds, s \in SampleIds, f \in 0..1}

(***************************************************************************)
(* Kafka message headers.  A header value is text, absent (null) or bytes  *)
(* that are not valid UTF-8.  NoHeaders is m.headers() == None.            *)
(***************************************************************************)
TextValue(t) == [kind |-> "text", text |-> t]

NullValue == [kind |-> "null", text |-> <<>>]

NonUtf8Value == [kind |-> "bytes", text |-> <<>>]

Header(k, v) == [key |-> k, value |-> v]

NoHeaders == [present |-> FALSE, entries |-> <<>>]

SomeHeaders(es) == [present |-> TRUE, entries |-> es]

\* str::eq_ignore_ascii_case on the header keys of the model
AsciiLower(k) == CASE k = "Traceparent" -> "traceparent"
                   [] k = "TRACEPARENT" -> "traceparent"
                   [] k = "Tracestate" -> "tracestate"
                   [] OTHER -> k

EqIgnoreAsciiCase(a, b) == AsciiLower(a) = AsciiLower(b)

\* VecInjector::new
VecInjector_new == <<>>

\* impl Injector for VecInjector: set pushes (key, value)
VecInjector_set(headers, key, value) ==
    Append(headers, [key |-> key, value |-> value])

RECURSIVE VecInjector_set_all(_, _)
\* the propagator calls set once per field
VecInjector_set_all(headers, fields) ==
    IF fields = <<>> THEN headers
    ELSE VecInjector_set_all(VecInjector_set(headers, Head(fields).key, Head(fields).value),
                             Tail(fields))

\* a conversion that forgets the values
into_owned_headers_null(headers) ==
    SomeHeaders([i \in 1..Len(headers) |-> Header(headers[i].key, NullValue)])

\* VecInjector::into_owned_headers: every pair becomes a header with Some(value)
into_owned_headers(headers) ==
    SomeHeaders([i \in 1..Len(headers) |->
                    Header(headers[i].key, TextValue(headers[i].value))])

\* results of Extractor::get: Some(text), None, or a panic of the call
GetSome(t) == [kind |-> "some", text |-> t]

GetNone == [kind |-> "none", text |-> <<>>]

GetPanic == [kind |-> "panic", text |-> <<>>]

RECURSIVE FindMap(_, _)
\* headers.iter().find_map(..) of HeaderExtractor::get: a matching key with a
\* null value panics in unwrap(), a matching key with bytes that are not
\* UTF-8 yields None for that entry and the search goes on.
FindMap(entries, key) ==
    IF entries = <<>> THEN GetNone
    ELSE LET h == Head(entries) IN
         IF EqIgnoreAsciiCase(h.key, key)
         THEN IF h.value.kind = "null" THEN GetPanic
              ELSE IF h.value.kind = "text" THEN GetSome(h.value.text)
              ELSE FindMap(Tail(entries), key)
         ELSE FindMap(Tail(entries), key)

\* impl Extractor for HeaderExtractor: get
HeaderExtractor_get(headers, key) ==
    IF ~headers.present THEN GetNone ELSE FindMap(headers.entries, key)

\* impl Extractor for HeaderExtractor: keys
HeaderExtractor_keys(headers) ==
    IF ~headers.present THEN <<>>
    ELSE [i \in 1..Len(headers.entries) |-> headers.entries[i].key]

(***************************************************************************)
(* The W3C trace-context propagator (TraceContextPropagator, an external   *)
(* crate), after the format the specification gives:                       *)
(*   traceparent: {version:2hex}-{trace_id:32hex}-{span_id:16hex}-{flags}  *)
(***************************************************************************)
Dash == <<"-">>

\* the traceparent text of a context; only the sampled bit of the flags is sent
TraceparentText(cx) ==
    <<"0", "0">> \o Dash \o HexFmt(cx.trace_id, TraceIdHexLen) \o Dash
      \o HexFmt(cx.span_id, SpanIdHexLen) \o Dash \o HexFmt(cx.flags % 2, 2)

\* inject_context: the fields the propagator sets on the carrier, in order;
\* nothing is set for an invalid context
InjectedFields(cx) ==
    IF ~IsValid(cx) THEN <<>>
    ELSE <<[key |-> "traceparent", value |-> TraceparentText(cx)],
           [key |-> "tracestate", value |-> <<>>]>>

\* the length of a traceparent text: four segments and three dashes
TraceparentLen == 2 + TraceIdHexLen + SpanIdHexLen + 2 + 3

\* the four segments of a text of that length: version, trace id, span id, flags
Segments(v) ==
    <<SubSeq(v, 1, 2),
      SubSeq(v, 4, 3 + TraceIdHexLen),
      SubSeq(v, 5 + TraceIdHexLen, 4 + TraceIdHexLen + SpanIdHexLen),
      SubSeq(v, TraceparentLen - 1, TraceparentLen)>>

\* the text matches {2hex}-{32hex}-{16hex}-{2hex}
MatchesTraceparent(v) ==
    /\ Len(v) = TraceparentLen
    /\ v[3] = "-" /\ v[4 + TraceIdHexLen] = "-" /\ v[TraceparentLen - 2] = "-"
    /\ \A i \in 1..4 : IsLowerHex(Segments(v)[i])

\* the context a traceparent text denotes, InvalidContext when it denotes none
ParseTraceparent(v) ==
    IF ~MatchesTraceparent(v) THEN InvalidContext
    ELSE LET parts == Segments(v)
             cx == SpanContext(HexVal(parts[2]), HexVal(parts[3]),
                               HexVal(parts[4]) % 2, TRUE) IN
         IF IsValid(cx) THEN cx ELSE InvalidContext

\* extract: tp is what the carrier's get returned for "traceparent", ts what it
\* returns for "tracestate", which is read once traceparent parsed; a panic of
\* the carrier's get propagates to the caller
ExtractContext(tp, ts) ==
    IF tp.kind = "panic" THEN [panic |-> TRUE, cx |-> InvalidContext]
    ELSE IF tp.kind = "none" THEN [panic |-> FALSE, cx |-> InvalidContext]
    ELSE LET cx == ParseTraceparent(tp.text) IN
         IF ~IsValid(cx) THEN [panic |-> FALSE, cx |-> InvalidContext]
         ELSE IF ts.kind = "panic"
              THEN [panic |-> TRUE, cx |-> InvalidContext]
              ELSE [panic |-> FALSE, cx |-> cx]

\* texts that do not match the traceparent pattern
ValidSample == TraceparentText(SpanContext(1, 1, 1, TRUE))

MalformedTexts ==
    { <<>>,                                              \* empty
      SubSeq(ValidSample, 1, 52),                        \* three segments
      [ValidSample EXCEPT ![4] = "g"],                   \* a character that is not hex
      SubSeq(ValidSample, 1, 3) \o SubSeq(ValidSample, 5, 55) } \* trace id of 31 digits

\* header collections a received message can carry: traceparent entries with
\* a valid, a malformed, a null or a non-UTF-8 value, a differently cased key,
\* and tracestate entries
SampleValues ==
    {TextValue(TraceparentText(cx)) : cx \in WireContexts}
      \cup {TextValue(t) : t \in MalformedTexts}
      \cup {NullValue, NonUtf8Value}

SampleEntries ==
    {Header("traceparent", v) : v \in SampleValues}
      \cup {Header("Traceparent", TextValue(ValidSample))}
      \cup {Header("tracestate", v) : v \in {TextValue(<<>>), NullValue}}

SampleHeaders ==
    {NoHeaders} \cup
    {SomeHeaders(es) : es \in UNION {[1..n -> SampleEntries] : n \in 0..MaxHeaders}}

(***************************************************************************)
(* State.                                                                  *)
(***************************************************************************)
VARIABLES
    \* producer-to-consumer carrier pipeline (send_book_ingestion_message and
    \* the extraction of run_consumer)
    rt_pc, rt_cx, rt_injector, rt_headers, rt_out,
    \* the tracing runtime: spans of the registry with their OtelData, the id
    \* generator, the span stack of the running thread
    spans, idgen, stack,
    \* the Sentry scope of the thread and the error reports captured
    scope, reports,
    \* the event being dispatched through the subscriber's layers
    ev, nevents, rust_log,
    \* run_consumer: position in the loop, the message in hand, the number of
    \* recv() calls that returned, the commit_message calls, and what the
    \* current iteration has done so far, the book_ingestion spans that have
    \* ended
    c_pc, c_msg, c_received, commits, c_last, c_ended,
    \* main: position, the two environment switches, the shutdown calls made,
    \* the errors logged, the value returned
    m_pc, m_env, m_calls, m_log, m_ret,
    \* inbound HTTP requests being handled and the outbound requests executed
    reqs, outbound,
    \* installation of the process globals: the kind of process, the state of
    \* the Once, the number of initialisation bodies started, the globals, and
    \* each calling thread's position
    proc, once, body_runs, globals, callers,
    \* the bookapp router: the books table, the serial of its id column, the
    \* messages on the book_ingestion topic, and the last request served with
    \* its response, and the row of the error_injection_config table
    catalog, next_id, topic, served, store,
    \* RequestCarrier::set: the position, the request of the carrier, the
    \* request before the last call of set, and that call's arguments
    rc_pc, rc_request, rc_before, rc_call

carrierVars == <<rt_pc, rt_cx, rt_injector, rt_headers, rt_out>>

spanVars == <<spans, idgen, stack>>

sentryVars == <<scope, reports>>

dispatchVars == <<ev, nevents, rust_log>>

consumerVars == <<c_pc, c_msg, c_received, commits, c_last, c_ended>>

mainVars == <<m_pc, m_env, m_calls, m_log, m_ret>>

httpVars == <<reqs, outbound>>

installVars == <<proc, once, body_runs, globals, callers>>

routerVars == <<catalog, next_id, topic, served, store>>

setVars == <<rc_pc, rc_request, rc_before, rc_call>>

vars == <<carrierVars, spanVars, sentryVars, dispatchVars, consumerVars, mainVars, httpVars, installVars, routerVars, setVars>>

(***************************************************************************)
(* The carrier pipeline: VecInjector -> OwnedHeaders -> HeaderExtractor.    *)
(***************************************************************************)
NoExtraction == [panic |-> FALSE, cx |-> InvalidContext]

CarrierIdle ==
    /\ rt_pc = "idle" /\ rt_cx = InvalidContext /\ rt_injector = VecInjector_new
    /\ rt_headers = NoHeaders /\ rt_out = NoExtraction

\* the context handed to send_book_ingestion_message is that of the current
\* span: any valid context, or the empty one
CarrierInit ==
    /\ rt_pc = "start"
    /\ rt_cx \in SampleContexts \cup {InvalidContext}
    /\ rt_injector = VecInjector_new
    /\ rt_headers = NoHeaders
    /\ rt_out = NoExtraction

notCarrier == <<spanVars, sentryVars, dispatchVars, consumerVars, mainVars, httpVars, installVars, routerVars, setVars>>

\* send_book_ingestion_message: propagator.inject_context(otel_context, &mut injector)
RT_Inject ==
    /\ rt_pc = "start"
    /\ rt_injector' = VecInjector_set_all(rt_injector, InjectedFields(rt_cx))
    /\ rt_pc' = "injected"
    /\ UNCHANGED <<rt_cx, rt_headers, rt_out, notCarrier>>

\* send_book_ingestion_message: .headers(injector.into_owned_headers()); the
\* record then travels to the consumer with its headers
RT_IntoOwned ==
    /\ rt_pc = "injected"
    /\ rt_headers' = into_owned_headers(rt_injector)
    /\ rt_pc' = "owned"
    /\ UNCHANGED <<rt_cx, rt_injector, rt_out, notCarrier>>

\* run_consumer: propagator.extract(&HeaderExtractor { headers })
RT_Extract ==
    /\ rt_pc = "owned"
    /\ rt_out' = ExtractContext(HeaderExtractor_get(rt_headers, "traceparent"),
                                HeaderExtractor_get(rt_headers, "tracestate"))
    /\ rt_pc' = "extracted"
    /\ UNCHANGED <<rt_cx, rt_injector, rt_headers, notCarrier>>

(***************************************************************************)
(* The tracing runtime.                                                    *)
(***************************************************************************)
Levels == {"ERROR", "WARN", "INFO", "DEBUG", "TRACE"}

\* tracing::Level orders by verbosity: ERROR < WARN < INFO < DEBUG < TRACE
Verbosity(l) == CASE l = "ERROR" -> 1 [] l = "WARN" -> 2 [] l = "INFO" -> 3
                  [] l = "DEBUG" -> 4 [] l = "TRACE" -> 5

\* `a >= b` on tracing::Level
LevelGe(a, b) == Verbosity(a) >= Verbosity(b)

\* a level filter `max` enables the levels that are at most as verbose
LevelEnabled(l, max) == Verbosity(l) <= Verbosity(max)

\* targets of the events of the model: the application's modules and the
\* runtime's instrumentation
EventTargets == {"bookapp", "tokio"}

\* a span of the registry; otel says whether the OpenTelemetry layer attached
\* OtelData to it, parent is OtelData.parent_cx's span context
SpanRec(name, t, s, f, parent, otel) ==
    [name |-> name, trace_id |-> t, span_id |-> s, flags |-> f, parent |-> parent,
     links |-> <<>>, otel |-> otel, open |-> TRUE, status |-> "unset"]

\* the span's own context
OwnContext(sp) == SpanContext(sp.trace_id, sp.span_id, sp.flags, FALSE)

\* the OpenTelemetry layer's on_new_span: a span continues the trace of a valid
\* parent context and starts a new one otherwise; n ids were drawn before
NewSpan(name, parent, otel, n) ==
    IF ~otel THEN SpanRec(name, 0, 0, 0, InvalidContext, FALSE)
    ELSE IF IsValid(parent)
         THEN SpanRec(name, parent.trace_id, NewId(n + 1), parent.flags, parent, TRUE)
         ELSE SpanRec(name, NewId(n + 2), NewId(n + 1), 1, InvalidContext, TRUE)

IdsDrawn(parent, otel) == IF ~otel THEN 0 ELSE IF IsValid(parent) THEN 1 ELSE 2

\* the context of the current span as the OpenTelemetry layer sees it: that of
\* the innermost entered span when it carries OtelData, else the empty one
CurrentContext(stk) ==
    IF stk = <<>> THEN InvalidContext
    ELSE IF spans[stk[Len(stk)]].otel THEN OwnContext(spans[stk[Len(stk)]])
    ELSE InvalidContext

\* ctx.event_span(event): the innermost entered span, 0 when there is none
EventSpan(stk) == IF stk = <<>> THEN 0 ELSE stk[Len(stk)]

(***************************************************************************)
(* The subscriber assembled by init_tracing.                               *)
(***************************************************************************)
\* an assembly with the correlation layer added after the Sentry layer
Layers_sentry_first ==
    <<"console", "otel", "sentry", "correlation", "otel_log", "metrics", "stdout">>

\* Registry::default().with(..)...: Layered calls the inner layers first, so
\* an event visits the layers in the order they were added
Layers == <<"console", "otel", "correlation", "sentry", "otel_log", "metrics", "stdout">>

\* tracing_level_filter of the OpenTelemetry layer
TracingLevelFilter(m) ==
    LevelEnabled(m.level, CASE m.target = "bookapp" -> "TRACE"
                            [] m.target = "h2" -> "WARN"
                            [] OTHER -> "INFO")

\* otel_log_filter of the OTLP log bridge
OtelLogFilter(m) ==
    LevelEnabled(m.level, CASE m.target = "bookapp" -> "DEBUG" [] OTHER -> "INFO")

\* ConsoleLayer's spawn() filters on the runtime's own targets
ConsoleFilter(m) == m.target = "tokio"

\* the per-layer filter of each layer; a layer added without with_filter sees
\* every event
LayerEnabled(layer, m) ==
    CASE layer = "console" -> ConsoleFilter(m)
      [] layer = "otel" -> TracingLevelFilter(m)
      [] layer = "otel_log" -> OtelLogFilter(m)
      [] layer = "stdout" -> LevelEnabled(m.level, rust_log)
      [] OTHER -> TRUE

\* SentryOtelCorrelationLayer::new
min_level == "WARN"

NoTag == <<>>

EmptyScope == [trace |-> NoTag, span |-> NoTag, crumbs |-> 0]

\* a correlation that skips the is_valid check
correlate_with_sentry_unchecked(e, ctx, sc) ==
    IF e.span = 0 THEN [scope |-> sc, wrote |-> FALSE]
    ELSE [scope |-> [sc EXCEPT !.trace = HexFmt(ctx[e.span].parent.trace_id, TraceIdHexLen),
                               !.span = HexFmt(ctx[e.span].parent.span_id, SpanIdHexLen)],
          wrote |-> TRUE]

\* SentryOtelCorrelationLayer::correlate_with_sentry: ctx is the registry's
\* span table; the tags are taken from otel_data.parent_cx of the event's span
correlate_with_sentry(e, ctx, sc) ==
    IF e.span = 0 THEN [scope |-> sc, wrote |-> FALSE]
    ELSE IF ~ctx[e.span].otel THEN [scope |-> sc, wrote |-> FALSE]
    ELSE LET span_context == ctx[e.span].parent IN
         IF IsValid(span_context)
         THEN [scope |-> [sc EXCEPT !.trace = HexFmt(span_context.trace_id, TraceIdHexLen),
                                    !.span = HexFmt(span_context.span_id, SpanIdHexLen)],
               wrote |-> TRUE]
         ELSE [scope |-> sc, wrote |-> FALSE]

\* Layer::on_event of SentryOtelCorrelationLayer
on_event(e, ctx, sc) ==
    IF LevelGe(e.level, min_level)
    THEN LET r == correlate_with_sentry(e, ctx, sc) IN
         [scope |-> r.scope, called |-> TRUE, wrote |-> r.wrote]
    ELSE [scope |-> sc, called |-> FALSE, wrote |-> FALSE]

\* sentry_layer's event_filter: ERROR is captured as an event carrying the
\* scope's tags, WARN becomes a breadcrumb of the scope, the rest adds nothing
\* to the scope
SentryScope(e, sc) == IF e.level = "WARN" THEN [sc EXCEPT !.crumbs = @ + 1] ELSE sc

SentryReports(e, sc, rs) ==
    IF e.level = "ERROR"
    THEN Append(rs, [span |-> e.span, trace |-> sc.trace, span_tag |-> sc.span])
    ELSE rs

\* one layer handles (or, filtered out, skips) the event; st is the state of
\* the dispatch: the scope, the reports and what the correlation layer did
LayerStep(layer, e, ctx, st) ==
    IF ~LayerEnabled(layer, e) THEN st
    ELSE IF layer = "correlation"
         THEN LET r == on_event(e, ctx, st.scope) IN
              [st EXCEPT !.scope = r.scope, !.called = r.called, !.wrote = r.wrote,
                         !.before = st.scope, !.handled = Append(@, layer)]
    ELSE IF layer = "sentry"
         THEN [st EXCEPT !.scope = SentryScope(e, st.scope),
                         !.reports = SentryReports(e, st.scope, st.reports),
                         !.handled = Append(@, layer)]
    ELSE [st EXCEPT !.handled = Append(@, layer)]

\* an OpenTelemetry layer that leaves the status of the span alone
otel_on_event_keeps_status(e, ctx) == ctx

\* OpenTelemetryLayer::on_event: an ERROR event recorded on a span with
\* OtelData sets the span's status to error when no status was set before
otel_on_event(e, ctx) ==
    IF e.span = 0 THEN ctx
    ELSE IF ~ctx[e.span].otel THEN ctx
    ELSE IF e.level = "ERROR" /\ ctx[e.span].status = "unset"
         THEN [ctx EXCEPT ![e.span].status = "error"]
         ELSE ctx

\* the registry's span table after the layers handled the event: only the
\* OpenTelemetry layer, when its filter lets the event through, changes it
SpansAfter(e, ctx) == IF LayerEnabled("otel", e) THEN otel_on_event(e, ctx) ELSE ctx

DispatchState(sc, rs) ==
    [scope |-> sc, reports |-> rs, called |-> FALSE, wrote |-> FALSE,
     before |-> sc, handled |-> <<>>]

RECURSIVE DispatchFrom(_, _, _, _)
\* the event visits the layers i.. of the assembly
DispatchFrom(i, e, ctx, st) ==
    IF i > Len(Layers) THEN st
    ELSE DispatchFrom(i + 1, e, ctx, LayerStep(Layers[i], e, ctx, st))

\* a whole dispatch of an event of level l and target t emitted in span sp
Dispatch(l, t, sp, ctx, sc, rs) ==
    DispatchFrom(1, [level |-> l, target |-> t, span |-> sp], ctx, DispatchState(sc, rs))

NoEvent == [active |-> FALSE, level |-> "INFO", target |-> "bookapp", span |-> 0,
            next |-> 1, handled |-> <<>>, called |-> FALSE, wrote |-> FALSE,
            before |-> EmptyScope]

TraceIdle ==
    /\ spans = <<>> /\ idgen = 0 /\ stack = <<>> /\ scope = EmptyScope
    /\ reports = <<>> /\ ev = NoEvent /\ nevents = 0 /\ rust_log = "ERROR"

(***************************************************************************)
(* The subscriber at work: spans are created, entered and exited, events   *)
(* are emitted and visit the layers one after the other.                   *)
(***************************************************************************)
BridgeInit ==
    /\ spans = <<>> /\ idgen = 0 /\ stack = <<>>
    /\ scope = EmptyScope /\ reports = <<>>
    /\ ev = NoEvent /\ nevents = 0
    /\ rust_log = "INFO"

notBridge == <<carrierVars, consumerVars, mainVars, httpVars, installVars, routerVars, setVars>>

\* metadata of the spans of the model: an application span, and a span of a
\* library that the OpenTelemetry layer's filter leaves out
SpanMetas == {[level |-> "INFO", target |-> "bookapp"], [level |-> "DEBUG", target |-> "h2"]}

\* a span is created in the current context and entered (#[instrument],
\* info_span!(..).entered())
B_NewSpan ==
    /\ ~ev.active
    /\ Len(spans) < MaxSpans
    /\ \E m \in SpanMetas :
         LET otel == TracingLevelFilter(m)
             parent == CurrentContext(stack) IN
         /\ spans' = Append(spans, NewSpan("span", parent, otel, idgen))
         /\ idgen' = idgen + IdsDrawn(parent, otel)
    /\ stack' = Append(stack, Len(spans) + 1)
    /\ UNCHANGED <<sentryVars, dispatchVars, notBridge>>

\* what OtelAxumLayer extracts from the headers of an inbound request: the
\* context of a remote caller, or none
ServerParents == {SpanContext(1, MaxRemoteId, 1, TRUE), InvalidContext}

\* the server span of an inbound request: its parent is the context extracted
\* from the request's headers (OtelInResponseLayer / OtelAxumLayer)
B_ServerSpan ==
    /\ ~ev.active
    /\ stack = <<>>
    /\ Len(spans) < MaxSpans
    /\ \E parent \in ServerParents :
         /\ spans' = Append(spans, NewSpan("server", parent, TRUE, idgen))
         /\ idgen' = idgen + IdsDrawn(parent, TRUE)
    /\ stack' = <<Len(spans) + 1>>
    /\ UNCHANGED <<sentryVars, dispatchVars, notBridge>>

\* the innermost span is exited and closed
B_Exit ==
    /\ ~ev.active
    /\ stack # <<>>
    /\ spans' = [spans EXCEPT ![stack[Len(stack)]].open = FALSE]
    /\ stack' = SubSeq(stack, 1, Len(stack) - 1)
    /\ UNCHANGED <<idgen, sentryVars, dispatchVars, notBridge>>

\* tracing::event!(..): the event belongs to the innermost entered span
B_Emit ==
    /\ ~ev.active
    /\ nevents < MaxEvents
    /\ \E l \in Levels, t \in EventTargets :
         ev' = [NoEvent EXCEPT !.active = TRUE, !.level = l, !.target = t,
                               !.span = EventSpan(stack), !.before = scope]
    /\ nevents' = nevents + 1
    /\ UNCHANGED <<spanVars, sentryVars, rust_log, notBridge>>

\* the next layer of the assembly is offered the event
B_Layer ==
    /\ ev.active
    /\ ev.next <= Len(Layers)
    /\ LET st == [scope |-> scope, reports |-> reports, called |-> ev.called,
                  wrote |-> ev.wrote, before |-> ev.before, handled |-> ev.handled]
           r == LayerStep(Layers[ev.next], ev, spans, st) IN
         /\ scope' = r.scope
         /\ reports' = r.reports
         /\ ev' = [ev EXCEPT !.called = r.called, !.wrote = r.wrote, !.before = r.before,
                             !.handled = r.handled, !.next = @ + 1]
    /\ spans' = IF Layers[ev.next] = "otel" THEN SpansAfter(ev, spans) ELSE spans
    /\ UNCHANGED <<idgen, stack, nevents, rust_log, notBridge>>

\* the dispatch of the event returns
B_Done ==
    /\ ev.active
    /\ ev.next > Len(Layers)
    /\ ev' = NoEvent
    /\ UNCHANGED <<spanVars, sentryVars, nevents, rust_log, notBridge>>

(***************************************************************************)
(* The consumer loop of run_consumer.                                      *)
(***************************************************************************)
\* payloads of a received message: absent, a JSON BookIngestionMessage, UTF-8
\* text that is no such message, bytes that are not UTF-8
Payloads == {"none", "json", "text", "bytes"}

Messages == [headers : SampleHeaders, payload : Payloads]

NoMessage == [active |-> FALSE, headers |-> NoHeaders, payload |-> "none"]

\* what the current iteration has done so far
NoProgress == [spanned |-> FALSE, panic |-> FALSE, cx |-> InvalidContext,
               processed |-> "no", commit |-> "none"]

\* a view that also refuses an absent payload
payload_view_strict(payload) ==
    [skip |-> payload \in {"bytes", "none"}, text |-> IF payload = "json" THEN "json" ELSE "text"]

\* m.payload_view::<str>(): None reads as "", bytes that are not UTF-8 make the
\* iteration `continue`
payload_view(payload) ==
    [skip |-> payload = "bytes",
     text |-> CASE payload = "none" -> "" [] payload = "json" -> "json" [] OTHER -> "text"]

\* serde_json::from_str::<BookIngestionMessage>(payload).is_ok()
from_str_ok(text) == text = "json"

\* tracing::info_span!("book_ingestion"): run_consumer runs in a task spawned
\* without a span, so the span is created in the context of stk
info_span(name, stk, n) == NewSpan(name, CurrentContext(stk), TRUE, n)

\* span.set_parent(parent_cx): the span joins the trace of the given context
set_parent(sp, cx) ==
    IF IsValid(cx) THEN [sp EXCEPT !.parent = cx, !.trace_id = cx.trace_id] ELSE sp

\* span.add_link_with_attributes(linked_span_context, ..): a link is recorded
\* for a valid context only
add_link_with_attributes(sp, cx) ==
    IF IsValid(cx) THEN [sp EXCEPT !.links = Append(@, cx)] ELSE sp

\* what is known of a span once it has ended
EndedSpan(sp) == [name |-> sp.name, span_id |-> sp.span_id, status |-> sp.status]

\* the same event emitted after the span's scope was left
deserialize_failed_event_outside == [level |-> "ERROR", target |-> "bookapp", span |-> 0]

\* error!("Failed to deserialize message payload") inside span.in_scope(..):
\* the event belongs to the book_ingestion span, the first of the table
deserialize_failed_event == [level |-> "ERROR", target |-> "bookapp", span |-> 1]

ConsumerIdle ==
    /\ c_pc = "off" /\ c_msg = NoMessage /\ c_received = 0
    /\ commits = <<>> /\ c_last = NoProgress /\ c_ended = <<>>

ConsumerInit ==
    /\ c_pc = "recv" /\ c_msg = NoMessage /\ c_received = 0
    /\ commits = <<>> /\ c_last = NoProgress /\ c_ended = <<>>
    /\ spans = <<>> /\ idgen = 0 /\ stack = <<>>
    /\ scope = EmptyScope /\ reports = <<>>
    /\ ev = NoEvent /\ nevents = 0 /\ rust_log = "INFO"

notConsumer == <<carrierVars, dispatchVars, mainVars, httpVars, installVars, routerVars, setVars>>

\* consumer.recv() returns Err: the error is logged, the loop goes on
C_RecvErr ==
    /\ c_pc = "recv"
    /\ c_received < MaxMessages
    /\ LET d == Dispatch("ERROR", "bookapp", 0, spans, scope, reports) IN
         /\ scope' = d.scope
         /\ reports' = d.reports
    /\ c_received' = c_received + 1
    /\ UNCHANGED <<c_pc, c_msg, commits, c_last, c_ended, spanVars, notConsumer>>

\* consumer.recv() returns a message: payload view, span creation, extraction
\* of the producer's context, link
C_Recv(messages) ==
    /\ c_pc = "recv"
    /\ c_received < MaxMessages
    /\ c_received' = c_received + 1
    /\ \E m \in messages :
         LET view == payload_view(m.payload)
             span == info_span("book_ingestion", stack, idgen)
             parent_cx == ExtractContext(HeaderExtractor_get(m.headers, "traceparent"),
                                         HeaderExtractor_get(m.headers, "tracestate"))
             logged == Dispatch("ERROR", "bookapp", 0, spans, scope, reports)
             debugged == Dispatch("DEBUG", "bookapp", 0, <<span>>, scope, reports) IN
         /\ c_msg' = [active |-> TRUE, headers |-> m.headers, payload |-> m.payload]
         /\ IF view.skip
            THEN /\ scope' = logged.scope
                 /\ reports' = logged.reports
                 /\ c_pc' = "skipped"
                 /\ c_last' = NoProgress
                 /\ UNCHANGED <<spans, idgen, c_ended>>
            ELSE IF parent_cx.panic
            THEN /\ spans' = <<[span EXCEPT !.open = FALSE]>>
                 /\ idgen' = idgen + IdsDrawn(CurrentContext(stack), TRUE)
                 /\ c_pc' = "panicked"
                 /\ c_last' = [NoProgress EXCEPT !.spanned = TRUE, !.panic = TRUE]
                 /\ c_ended' = Append(c_ended, EndedSpan(span))
                 /\ UNCHANGED <<scope, reports>>
            ELSE /\ spans' = <<add_link_with_attributes(span, parent_cx.cx)>>
                 /\ idgen' = idgen + IdsDrawn(CurrentContext(stack), TRUE)
                 /\ scope' = debugged.scope
                 /\ reports' = debugged.reports
                 /\ c_pc' = "in_span"
                 /\ c_last' = [NoProgress EXCEPT !.spanned = TRUE, !.cx = parent_cx.cx]
                 /\ UNCHANGED c_ended
    /\ UNCHANGED <<commits, stack, notConsumer>>

\* span.in_scope(..): deserialization, and background_process_new_book in a
\* child span, or the error event
C_Process ==
    /\ c_pc = "in_span"
    /\ IF from_str_ok(payload_view(c_msg.payload).text)
       THEN LET child == NewSpan("background_process_new_book", OwnContext(spans[1]),
                                 TRUE, idgen)
                tbl == Append(spans, child)
                d1 == Dispatch("INFO", "bookapp", 1, spans, scope, reports)
                d2 == Dispatch("INFO", "bookapp", 2, tbl, d1.scope, d1.reports)
                d3 == Dispatch("INFO", "bookapp", 2, tbl, d2.scope, d2.reports) IN
            /\ spans' = Append(spans, [child EXCEPT !.open = FALSE])
            /\ idgen' = idgen + IdsDrawn(OwnContext(spans[1]), TRUE)
            /\ scope' = d3.scope
            /\ reports' = d3.reports
            /\ c_last' = [c_last EXCEPT !.processed = "ok"]
       ELSE LET e == deserialize_failed_event
                d == Dispatch(e.level, e.target, e.span, spans, scope, reports) IN
            /\ scope' = d.scope
            /\ reports' = d.reports
            /\ spans' = SpansAfter(e, spans)
            /\ c_last' = [c_last EXCEPT !.processed = "failed"]
            /\ UNCHANGED idgen
    /\ c_pc' = "commit"
    /\ UNCHANGED <<c_msg, c_received, commits, c_ended, stack, notConsumer>>

\* a loop that logged the error of commit_message and went on
after_commit_logged(r) == "committed"

\* the `?` on commit_message: Ok goes on to the end of the iteration, Err
\* returns from run_consumer
after_commit(r) == IF r = "Ok" THEN "committed" ELSE "returned"

\* consumer.commit_message(&m, CommitMode::Async)?: an error makes run_consumer
\* return, which drops (ends) the span, and the spawning task logs it
C_Commit ==
    /\ c_pc = "commit"
    /\ \E r \in {"Ok", "Err"} :
         /\ commits' = Append(commits, [id |-> c_received, result |-> r])
         /\ c_last' = [c_last EXCEPT !.commit = r]
         /\ IF r = "Ok"
            THEN /\ c_pc' = after_commit(r)
                 /\ UNCHANGED <<spans, scope, reports, c_ended>>
            ELSE LET d == Dispatch("ERROR", "bookapp", 0, spans, scope, reports) IN
                 /\ c_pc' = after_commit(r)
                 /\ spans' = [i \in 1..Len(spans) |-> [spans[i] EXCEPT !.open = FALSE]]
                 /\ c_ended' = Append(c_ended, EndedSpan(spans[1]))
                 /\ scope' = d.scope
                 /\ reports' = d.reports
    /\ UNCHANGED <<c_msg, c_received, idgen, stack, notConsumer>>

\* the iteration ends (or `continue`s): the message and the span, if one was
\* created, are dropped; a dropped span ends and leaves the registry
C_LoopEnd ==
    /\ c_pc \in {"committed", "skipped"}
    /\ c_pc' = "recv"
    /\ c_msg' = NoMessage
    /\ c_last' = NoProgress
    /\ spans' = <<>>
    /\ c_ended' = IF c_pc = "committed" THEN Append(c_ended, EndedSpan(spans[1])) ELSE c_ended
    /\ UNCHANGED <<c_received, commits, idgen, stack, sentryVars, notConsumer>>

(***************************************************************************)
(* main: start-up, serving, shutdown of the three providers.               *)
(***************************************************************************)
Providers == <<"trace", "meter", "log">>

MainIdle ==
    /\ m_pc = "off" /\ m_env = [consumer |-> FALSE, producer |-> FALSE]
    /\ m_calls = <<>> /\ m_log = <<>> /\ m_ret = "none"

\* ENABLE_KAFKA_CONSUMER and ENABLE_KAFKA_PRODUCER are read from the environment
MainInit ==
    /\ m_pc = "start"
    /\ m_env \in [consumer : BOOLEAN, producer : BOOLEAN]
    /\ m_calls = <<>> /\ m_log = <<>> /\ m_ret = "none"

notMain == <<carrierVars, spanVars, sentryVars, dispatchVars, consumerVars, httpVars, installVars, routerVars, setVars>>

Log(level, msg) == [level |-> level, msg |-> msg]

\* a step `f()?`: on Ok main goes on to next, on Err it returns the error
Try(ok, next, msg) ==
    /\ m_pc' = IF ok THEN next ELSE "exited"
    /\ m_ret' = IF ok THEN m_ret ELSE "Err"
    /\ m_log' = IF msg = "" THEN m_log ELSE Append(m_log, Log("INFO", msg))

\* init_tracing() builds the providers and installs the subscriber
M_InitTracing ==
    /\ m_pc = "start"
    /\ m_pc' = "init_db"
    /\ m_log' = Append(m_log, Log("INFO", "Setting up Database"))
    /\ UNCHANGED <<m_env, m_calls, m_ret, notMain>>

\* init_db().await?
M_InitDb ==
    /\ m_pc = "init_db"
    /\ \E ok \in BOOLEAN : Try(ok, "admin", "")
    /\ UNCHANGED <<m_env, m_calls, notMain>>

\* topic_management::create_admin_client()?
M_Admin ==
    /\ m_pc = "admin"
    /\ \E ok \in BOOLEAN : Try(ok, "topic", "")
    /\ UNCHANGED <<m_env, m_calls, notMain>>

\* ensure_topic_exists(..).await?, then the consumer task is spawned when enabled
M_EnsureTopic ==
    /\ m_pc = "topic"
    /\ \E ok \in BOOLEAN :
         Try(ok, "producer", IF ok /\ m_env.consumer THEN "Starting Kafka consumer" ELSE "")
    /\ UNCHANGED <<m_env, m_calls, notMain>>

\* if enable_kafka_producer: create_producer()?, bind(..).await?, serve
M_Producer ==
    /\ m_pc = "producer"
    /\ IF m_env.producer
       THEN \E step \in {"create_producer", "bind", "serve"} :
              /\ m_pc' = IF step = "serve" THEN "serving" ELSE "exited"
              /\ m_ret' = IF step = "serve" THEN m_ret ELSE "Err"
              /\ m_log' = m_log
                    \o <<Log("INFO", "Setting up Kafka Producer")>>
                    \o (IF step = "serve" THEN <<Log("INFO", "Starting webserver")>> ELSE <<>>)
       ELSE /\ m_pc' = "shutdown"
            /\ m_log' = Append(m_log, Log("INFO", "Shutting down OpenTelemetry"))
            /\ UNCHANGED m_ret
    /\ UNCHANGED <<m_env, m_calls, notMain>>

\* the server future completes, by graceful shutdown or otherwise
M_Serve ==
    /\ m_pc = "serving"
    /\ \E graceful \in BOOLEAN :
         m_log' = m_log
            \o <<IF graceful THEN Log("INFO", "Server has shut down gracefully.")
                 ELSE Log("ERROR", "Server encountered an error.")>>
            \o <<Log("INFO", "Shutting down OpenTelemetry")>>
    /\ m_pc' = "shutdown"
    /\ UNCHANGED <<m_env, m_calls, m_ret, notMain>>

\* a shutdown sequence written with `?`: the first error ends main
after_shutdown_try(calls, r) == IF r = "Err" THEN "exited" ELSE
                                IF Len(calls) = Len(Providers) THEN "drop_guard" ELSE "shutdown"

\* if let Err(e) = provider.shutdown() { error!(..) }: main goes on to the next
\* provider whatever the result
after_shutdown(calls, r) ==
    IF Len(calls) = Len(Providers) THEN "drop_guard" ELSE "shutdown"

\* the next of trace_provider.shutdown(), meter_provider.shutdown(),
\* log_provider.shutdown()
M_Shutdown ==
    /\ m_pc = "shutdown"
    /\ Len(m_calls) < Len(Providers)
    /\ \E r \in {"Ok", "Err"} :
         LET provider == Providers[Len(m_calls) + 1]
             calls == Append(m_calls, [provider |-> provider, result |-> r]) IN
         /\ m_calls' = calls
         /\ m_log' = IF r = "Err" THEN Append(m_log, Log("ERROR", provider)) ELSE m_log
         /\ m_pc' = after_shutdown(calls, r)
         /\ m_ret' = IF after_shutdown(calls, r) = "exited" THEN "Err" ELSE m_ret
    /\ UNCHANGED <<m_env, notMain>>

\* drop(sentry_guard); info!("Shutdown complete"); Ok(())
M_Done ==
    /\ m_pc = "drop_guard"
    /\ m_pc' = "exited"
    /\ m_ret' = "Ok"
    /\ m_log' = Append(m_log, Log("INFO", "Shutdown complete"))
    /\ UNCHANGED <<m_env, m_calls, notMain>>

\* the messages on the topic while the process runs: JSON or other text,
\* without headers
TopicMessages == {m \in Messages : m.headers = NoHeaders /\ m.payload \in {"json", "text"}}

\* main has spawned the consumer task and has not returned
Spawned == m_env.consumer /\ m_pc \in {"producer", "serving", "shutdown", "drop_guard"}

\* task::spawn(async move { run_consumer().await .. }): the task starts on a
\* worker of the runtime
P_Start ==
    /\ Spawned
    /\ c_pc = "off"
    /\ c_pc' = "recv"
    /\ UNCHANGED <<c_msg, c_received, commits, c_last, c_ended, spanVars, sentryVars,
                   notConsumer>>

\* the consumer task takes a step of run_consumer while main goes on: main
\* keeps no JoinHandle and sends the task no signal
P_Consume ==
    /\ Spawned
    /\ C_RecvErr \/ C_Recv(TopicMessages) \/ C_Process \/ C_Commit \/ C_LoopEnd

(***************************************************************************)
(* GET /books: the handler get_all_books and the calls it makes with the   *)
(* generated client.  Every request and every spawned task has its own     *)
(* current span.                                                           *)
(***************************************************************************)
Min(a, b) == IF a < b THEN a ELSE b

NoSpan == SpanRec("", 0, 0, 0, InvalidContext, FALSE)

\* the traceparent header of an inbound request: absent (<<>>), that of a
\* remote caller, or one cut short
InboundTraceparents ==
    {<<>>, SubSeq(ValidSample, 1, TraceparentLen - 3)}
        \cup {TraceparentText(cx) : cx \in WireContexts}

\* ids drawn while one request is handled are fresh: request r draws from its
\* own range
IdBase(r) == 16 * r

\* .header(ACCEPT, "application/json").build()
BuildRequest ==
    <<[key |-> "accept",
       value |-> <<"a", "p", "p", "l", "i", "c", "a", "t", "i", "o", "n",
                   "/", "j", "s", "o", "n">>]>>

\* a set_inner that used HeaderMap::append, which keeps the values of the name
RequestCarrier_append(request, key, value) ==
    Append(request, [key |-> AsciiLower(key), value |-> value])

\* RequestCarrier::set_inner: HeaderMap::insert replaces the values of the name
RequestCarrier_set(request, key, value) ==
    LET kept == SelectSeq(request, LAMBDA h : h.key # AsciiLower(key)) IN
    Append(kept, [key |-> AsciiLower(key), value |-> value])

RECURSIVE RequestCarrier_set_all(_, _)
\* the propagator calls set once per field
RequestCarrier_set_all(request, fields) ==
    IF fields = <<>> THEN request
    ELSE RequestCarrier_set_all(
             RequestCarrier_set(request, Head(fields).key, Head(fields).value), Tail(fields))

\* a pre-hook that leaves the request as it was built
inject_nothing(request, current) == request

\* inject_opentelemetry_context_into_request: Span::current().context() is
\* written into the request's headers
inject_opentelemetry_context_into_request(request, current) ==
    RequestCarrier_set_all(
        request, InjectedFields(IF current.otel THEN OwnContext(current) ELSE InvalidContext))

\* OtelAxumLayer: the server span continues the trace of the inbound request
ServerSpan(traceparent, n) ==
    NewSpan("HTTP request", ParseTraceparent(traceparent), TRUE, n)

\* a call of get_book_details_with_progenitor_client: its span and the request
\* that send() is working on
Call(pc, span, request) == [pc |-> pc, span |-> span, request |-> request]

NoRequest == [pc |-> "idle", traceparent |-> <<>>, server |-> NoSpan, handler |-> NoSpan,
              nbooks |-> 0, group |-> NoSpan, calls |-> <<>>, status |-> 0]

Requests == 1..MaxRequests

\* the requests handled at the same time by the runtime's workers
Inflight == 1..(MaxRequests + 1)

\* the traceparent of the r-th of the requests handled at the same time:
\* absent, or that of its own remote caller
OwnTraceparents(r) == {<<>>, TraceparentText(SpanContext(r, r, 1, TRUE))}

HttpIdle == reqs = [r \in Inflight |-> NoRequest] /\ outbound = {}

HttpInit == HttpIdle

notHttp == <<carrierVars, spanVars, sentryVars, dispatchVars, consumerVars, mainVars, installVars, routerVars, setVars>>

\* the handler's future is gone (it returned, panicked or was dropped): the
\* span of #[instrument] get_all_books and the server span end
EndRequest(q, pc, status) ==
    [q EXCEPT !.pc = pc, !.status = status, !.handler.open = FALSE, !.server.open = FALSE]

\* a request arrives: server span, then the span of #[instrument] get_all_books
H_Request(r, traceparents) ==
    /\ reqs[r].pc = "idle"
    /\ \E tp \in traceparents :
         LET server == ServerSpan(tp, IdBase(r))
             handler == NewSpan("get_all_books", OwnContext(server), TRUE, IdBase(r) + 2) IN
         reqs' = [reqs EXCEPT ![r] = [@ EXCEPT !.pc = "db", !.traceparent = tp,
                                                !.server = server, !.handler = handler]]
    /\ UNCHANGED <<outbound, notHttp>>

\* db::get_all_books(&con).await: an error, or the books of the table
H_Db(r, counts) ==
    /\ reqs[r].pc = "db"
    /\ \/ reqs' = [reqs EXCEPT ![r] = EndRequest(@, "responded", 503)]
       \/ \E n \in counts :
            reqs' = [reqs EXCEPT ![r] = [@ EXCEPT !.pc = "bulk", !.nbooks = n]]
    /\ UNCHANGED <<outbound, notHttp>>

\* fetch_bulk_book_details(&books).await: with books to fetch, a failed request
\* panics in expect()
H_Bulk(r) ==
    /\ reqs[r].pc = "bulk"
    /\ \E ok \in BOOLEAN :
         /\ reqs[r].nbooks = 0 => ok
         /\ reqs' = [reqs EXCEPT ![r] = IF ok THEN [@ EXCEPT !.pc = "first"]
                                          ELSE EndRequest(@, "panicked", 0)]
    /\ UNCHANGED <<outbound, notHttp>>

\* get_book_details_with_progenitor_client(books.first().unwrap().id): the
\* span of the call, and send() builds the request
H_First(r) ==
    /\ reqs[r].pc = "first"
    /\ IF reqs[r].nbooks = 0
       THEN reqs' = [reqs EXCEPT ![r] = EndRequest(@, "panicked", 0)]
       ELSE LET span == NewSpan("get_book_details_with_progenitor_client",
                                OwnContext(reqs[r].handler), TRUE, IdBase(r) + 3) IN
            reqs' = [reqs EXCEPT ![r] = [@ EXCEPT !.pc = "first_call",
                                                   !.calls = <<Call("built", span, BuildRequest)>>]]
    /\ UNCHANGED <<outbound, notHttp>>

\* a current span kept once for the process: that of the first call in flight
Current_process_wide(rs, r, i) ==
    LET busy == {q \in DOMAIN rs : rs[q].calls # <<>>}
        q == CHOOSE x \in busy : \A y \in busy : x <= y IN
    rs[q].calls[1].span

\* Span::current() inside send(): get_book_details_with_progenitor_client is
\* #[tracing::instrument]ed, so every poll of its future enters the call's span
\* on the worker that polls it
Current(rs, r, i) == rs[r].calls[i].span

\* send(): the pre-hook injects the current context into the built request
S_Inject(r, i) ==
    /\ i \in 1..Len(reqs[r].calls)
    /\ reqs[r].calls[i].pc = "built"
    /\ reqs' = [reqs EXCEPT ![r].calls[i] =
                  Call("injected", @.span,
                       inject_opentelemetry_context_into_request(@.request,
                                                                 Current(reqs, r, i)))]
    /\ UNCHANGED <<outbound, notHttp>>

\* the calls of the spawned tasks: the first call is awaited by the handler
Tasks(q) == 2..Len(q.calls)

\* the span "tokio_spawned_requests" ends when the handler's handle and the
\* clone of every task's Instrumented future are dropped
GroupOpen(q) ==
    q.pc = "join" \/ \E i \in Tasks(q) : q.calls[i].pc # "done"

\* send(): client.client.execute(request).await, then
\* get_book_details_with_progenitor_client returns and its span ends
S_Execute(r, i) ==
    /\ i \in 1..Len(reqs[r].calls)
    /\ reqs[r].calls[i].pc = "injected"
    /\ LET done == [reqs[r] EXCEPT !.calls[i].pc = "done", !.calls[i].span.open = FALSE] IN
         reqs' = [reqs EXCEPT ![r] = [done EXCEPT !.group.open = @ /\ GroupOpen(done)]]
    /\ outbound' = outbound \cup {[req |-> r, call |-> i, headers |-> reqs[r].calls[i].request]}
    /\ UNCHANGED notHttp

\* info_span!("tokio_spawned_requests"), and one tokio::spawn per book of
\* books.iter().take(5)
H_Spawn(r) ==
    /\ reqs[r].pc = "first_call"
    /\ reqs[r].calls[1].pc = "done"
    /\ LET group == NewSpan("tokio_spawned_requests", OwnContext(reqs[r].handler),
                            TRUE, IdBase(r) + 4)
           tasks == [i \in 1..Min(reqs[r].nbooks, TakeLimit) |-> Call("spawned", NoSpan, <<>>)] IN
         reqs' = [reqs EXCEPT ![r] = [@ EXCEPT !.pc = "join", !.group = group,
                                                !.calls = @ \o tasks]]
    /\ UNCHANGED <<outbound, notHttp>>

\* a spawned task starts inside the instrumenting span: the span of its call,
\* and send() builds the request
T_Start(r, i) ==
    /\ i \in 1..Len(reqs[r].calls)
    /\ reqs[r].calls[i].pc = "spawned"
    /\ LET span == NewSpan("get_book_details_with_progenitor_client",
                           OwnContext(reqs[r].group), TRUE, IdBase(r) + 4 + i) IN
         reqs' = [reqs EXCEPT ![r].calls[i] = Call("built", span, BuildRequest)]
    /\ UNCHANGED <<outbound, notHttp>>

\* join_all(..).await returns, the handler answers Ok(Json(books))
H_Join(r) ==
    /\ reqs[r].pc = "join"
    /\ \A i \in 1..Len(reqs[r].calls) : reqs[r].calls[i].pc = "done"
    /\ reqs' = [reqs EXCEPT ![r] = [EndRequest(@, "responded", 200) EXCEPT !.group.open = FALSE]]
    /\ UNCHANGED <<outbound, notHttp>>

\* the points where the handler's future is suspended
AwaitPoints == {"db", "bulk", "first_call", "join"}

\* the first call is part of the handler's future and is cancelled with it
Cancelled(calls) ==
    IF calls # <<>> /\ calls[1].pc # "done"
    THEN [calls EXCEPT ![1].pc = "cancelled", ![1].span.open = FALSE]
    ELSE calls

\* the request future is dropped while it is suspended (the connection was
\* closed): its spans end; the tasks started with tokio::spawn are detached,
\* dropping their JoinHandles leaves them running
H_Drop(r) ==
    /\ reqs[r].pc \in AwaitPoints
    /\ LET dropped == [EndRequest(reqs[r], "dropped", 0) EXCEPT !.calls = Cancelled(@)] IN
         reqs' = [reqs EXCEPT ![r] = [dropped EXCEPT !.group.open = @ /\ GroupOpen(dropped)]]
    /\ UNCHANGED <<outbound, notHttp>>

Handle == \E r \in Requests : H_Request(r, InboundTraceparents) \/ H_Db(r, 0..MaxBooks)
                                \/ H_Bulk(r) \/ H_First(r)
                                \/ H_Spawn(r) \/ H_Join(r) \/ H_Drop(r)

Send == \E r \in Requests : \E i \in 1..(1 + TakeLimit) :
            T_Start(r, i) \/ S_Inject(r, i) \/ S_Execute(r, i)

\* requests handled at the same time, each with its own caller and one book
\* in the table
HandleInflight ==
    \E r \in Inflight : H_Request(r, OwnTraceparents(r)) \/ H_Db(r, {1})
                           \/ H_Bulk(r) \/ H_First(r)
                           \/ H_Spawn(r) \/ H_Join(r) \/ H_Drop(r)

SendInflight == \E r \in Inflight : \E i \in 1..(1 + TakeLimit) :
                    T_Start(r, i) \/ S_Inject(r, i) \/ S_Execute(r, i)

(***************************************************************************)
(* Process-wide installation of the propagator, the providers and the      *)
(* default subscriber: init_test_tracing of the integration tests, guarded *)
(* by std::sync::Once, and init_tracing of bookapp.                        *)
(***************************************************************************)
Callers == 1..MaxCallers

\* the globals of the process: how many times each has been set, and the call
\* whose subscriber chain is the default subscriber
NoGlobals == [propagator |-> 0, meter |-> 0, tracer |-> 0, subscriber |-> 0, chain |-> <<>>]

NoCaller == [pc |-> "idle", pos |-> 0, calls |-> 0]

InstallIdle ==
    /\ proc = "off" /\ once = "incomplete" /\ body_runs = 0
    /\ globals = NoGlobals /\ callers = [t \in Callers |-> NoCaller]

\* a test binary whose tests call init_test_tracing, or the bookapp binary
InstallInit ==
    /\ proc \in {"tests", "bookapp"} /\ once = "incomplete" /\ body_runs = 0
    /\ globals = NoGlobals /\ callers = [t \in Callers |-> NoCaller]

notInstall == <<carrierVars, spanVars, sentryVars, dispatchVars, consumerVars, mainVars, httpVars, routerVars, setVars>>

\* the closure given to INIT.call_once, in the order of its statements
init_test_tracing == <<"propagator", "exporter", "tracer", "subscriber">>

\* init_tracing of bookapp, in the order of its statements
init_tracing == <<"propagator", "meter", "exporter", "tracer", "subscriber">>

Body(p) == IF p = "tests" THEN init_test_tracing ELSE init_tracing

\* global::set_text_map_propagator, set_meter_provider, set_tracer_provider:
\* the new value replaces the one installed before
set_global(g, what) == [g EXCEPT ![what] = @ + 1]

\* a set_global_default that installed whatever subscriber it is given
set_global_default_replaces(g, id) ==
    [ok |-> TRUE, g |-> [g EXCEPT !.subscriber = @ + 1, !.chain = id]]

\* tracing::subscriber::set_global_default: Ok for the first subscriber of the
\* process, Err for every later one, which leaves the first in place
set_global_default(g, id) ==
    IF g.subscriber = 0
    THEN [ok |-> TRUE, g |-> [g EXCEPT !.subscriber = 1, !.chain = id]]
    ELSE [ok |-> FALSE, g |-> g]

\* one statement of an initialisation body run by call `id`; `built` is whether
\* the exporter (or the meter provider) could be built, .expect / .unwrap
\* panic when it could not
Statement(s, built, g, id) ==
    CASE s = "propagator" -> [ok |-> TRUE, g |-> set_global(g, "propagator")]
      [] s = "meter" -> IF built THEN [ok |-> TRUE, g |-> set_global(g, "meter")]
                                 ELSE [ok |-> FALSE, g |-> g]
      [] s = "exporter" -> [ok |-> built, g |-> g]
      [] s = "tracer" -> [ok |-> TRUE, g |-> set_global(g, "tracer")]
      [] s = "subscriber" -> set_global_default(g, id)

\* a test calls init_test_tracing: INIT.call_once runs the closure when no call
\* has started it, blocks while another thread runs it, returns at once when
\* it has completed, and panics when it panicked
Once_call_once(t) ==
    /\ proc = "tests"
    /\ callers[t].pc = "idle" /\ callers[t].calls < MaxCalls
    /\ CASE once = "incomplete" ->
              /\ once' = "running" /\ body_runs' = body_runs + 1
              /\ callers' = [callers EXCEPT ![t] =
                    [pc |-> "body", pos |-> 1, calls |-> @.calls + 1]]
         [] once = "running" ->
              /\ callers' = [callers EXCEPT ![t] =
                    [pc |-> "waiting", pos |-> 0, calls |-> @.calls + 1]]
              /\ UNCHANGED <<once, body_runs>>
         [] once = "complete" ->
              /\ callers' = [callers EXCEPT ![t].calls = @ + 1]
              /\ UNCHANGED <<once, body_runs>>
         [] once = "poisoned" ->
              /\ callers' = [callers EXCEPT ![t] =
                    [pc |-> "panicked", pos |-> 0, calls |-> @.calls + 1]]
              /\ UNCHANGED <<once, body_runs>>
    /\ UNCHANGED <<proc, globals, notInstall>>

\* a thread blocked in call_once resumes when the running closure is over
Once_wake(t) ==
    /\ callers[t].pc = "waiting" /\ once \in {"complete", "poisoned"}
    /\ callers' = [callers EXCEPT ![t].pc =
            IF once = "complete" THEN "idle" ELSE "panicked"]
    /\ UNCHANGED <<proc, once, body_runs, globals, notInstall>>

\* the main thread of bookapp calls init_tracing; a panic of an earlier call
\* has ended the process
Call_init_tracing(t) ==
    /\ proc = "bookapp" /\ t = 1
    /\ callers[t].pc = "idle" /\ callers[t].calls < MaxCalls
    /\ body_runs' = body_runs + 1
    /\ callers' = [callers EXCEPT ![t] =
            [pc |-> "body", pos |-> 1, calls |-> @.calls + 1]]
    /\ UNCHANGED <<proc, once, globals, notInstall>>

\* the next statement of the body a caller is running
Run_statement(t) ==
    /\ callers[t].pc = "body"
    /\ \E built \in BOOLEAN :
         LET body == Body(proc)
             c == callers[t]
             r == Statement(body[c.pos], built, globals, <<t, c.calls>>)
             last == c.pos = Len(body)
         IN  /\ globals' = r.g
             /\ callers' = [callers EXCEPT ![t] =
                    IF ~r.ok THEN [c EXCEPT !.pc = "panicked"]
                    ELSE IF last THEN [c EXCEPT !.pc = "idle", !.pos = 0]
                    ELSE [c EXCEPT !.pos = @ + 1]]
             /\ once' = IF proc # "tests" THEN once
                        ELSE IF ~r.ok THEN "poisoned"
                        ELSE IF last THEN "complete" ELSE once
    /\ UNCHANGED <<proc, body_runs, notInstall>>

Install == \E t \in Callers : Once_call_once(t) \/ Once_wake(t)
                                \/ Call_init_tracing(t) \/ Run_statement(t)

(***************************************************************************)
(* The bookapp router: the layers of main.rs around the handlers of        *)
(* rest.rs, over the books table of db.rs and the book_ingestion topic.    *)
(***************************************************************************)
BookIds == 1..MaxBookId

\* ids a request path can name: 0 is never the id of a stored book
PathIds == 0..MaxBookId

Authors == {"Herbert"}

Titles == {"Dune"}

\* BookCreateIn: title, author and an optional status
BookCreateIn == [author : Authors, title : Titles, status : {"none", "borrowed"}]

Book(author, title, status) == [author |-> author, title |-> title, status |-> status]

EmptyCatalog == [i \in {} |-> Book("", "", "")]

NoResponse == [status |-> 0, body |-> <<>>, headers |-> <<>>]

\* the body of a request that has none
NoData == [author |-> "", title |-> "", status |-> "none"]

NoExchange == [route |-> "none", id |-> 0, data |-> NoData, db |-> FALSE, injected |-> FALSE,
               sent |-> FALSE, server |-> NoSpan, store_ok |-> FALSE, resp |-> NoResponse]

\* a row of error_injection_config: the route its method and pattern match, its
\* error rate in hundredths, its error code and its optional message
Config(route, rate, code, message) ==
    [present |-> TRUE, route |-> route, error_rate |-> rate, error_code |-> code,
     error_message |-> message]

NoConfig == [present |-> FALSE, route |-> "none", error_rate |-> 0, error_code |-> 0,
             error_message |-> "none"]

\* the contents of the table: no row, or one row
ErrorInjectionConfigs ==
    {NoConfig,
     Config("get_book", 100, 500, "Injected Internal Server Error"),
     Config("delete_book", 100, 42, "none"),
     Config("update_book", 0, 503, "none"),
     Config("create_book", 50, 503, "none")}

RouterIdle ==
    /\ catalog = EmptyCatalog /\ next_id = 1 /\ topic = <<>> /\ served = NoExchange
    /\ store = NoConfig

\* the books table after the migrations, the serial of its id column, an empty
\* topic, and the error_injection_config table as it was left
RouterInit ==
    /\ catalog = EmptyCatalog /\ next_id = 1 /\ topic = <<>> /\ served = NoExchange
    /\ store \in ErrorInjectionConfigs

notRouter == <<carrierVars, spanVars, sentryVars, dispatchVars, consumerVars, mainVars, httpVars, installVars, setVars>>

Response(status, body) == [status |-> status, body |-> body, headers |-> <<>>]

\* what a handler returns: the response, the table and the serial after it, and
\* the Kafka messages it has sent
Handled(resp, cat, next, sent) == [resp |-> resp, catalog |-> cat, next_id |-> next, sent |-> sent]

\* db::get_book: fetch_one, an error when no row has the id
\* rest::get_book: the book, or 404
get_book(cat, id, db_ok) ==
    IF db_ok /\ id \in DOMAIN cat
    THEN Response(200, <<[id |-> id] @@ cat[id]>>)
    ELSE Response(404, <<>>)

\* a delete_book that answered 404 when no row had the id
delete_book_rows_checked(cat, id, db_ok) ==
    IF db_ok /\ id \in DOMAIN cat
    THEN Handled(Response(200, <<>>), [i \in DOMAIN cat \ {id} |-> cat[i]], 0, <<>>)
    ELSE Handled(Response(404, <<>>), cat, 0, <<>>)

\* db::delete_book: Ok whatever the number of rows deleted
\* rest::delete_book: 200 with an empty body, or 404
delete_book(cat, id, db_ok) ==
    IF db_ok
    THEN Handled(Response(200, <<>>), [i \in DOMAIN cat \ {id} |-> cat[i]], 0, <<>>)
    ELSE Handled(Response(404, <<>>), cat, 0, <<>>)

\* db::update_book: sets author, title and status of the row, returns
\* rows_affected
\* rest::update_book: the status written is BookStatus::Available; 200 with the
\* number of rows, or 404
update_book(cat, id, data, db_ok) ==
    IF db_ok
    THEN IF id \in DOMAIN cat
         THEN Handled(Response(200, <<1>>),
                      [cat EXCEPT ![id] = Book(data.author, data.title, "available")], 0, <<>>)
         ELSE Handled(Response(200, <<0>>), cat, 0, <<>>)
    ELSE Handled(Response(404, <<>>), cat, 0, <<>>)

\* the status stored for a BookCreateIn: its status, the column default when it
\* has none
StoredStatus(data) == IF data.status = "none" THEN "available" ELSE data.status

\* queue_background_ingestion_task: the message of the new book is sent; a
\* failure is logged and marks the span, nothing is returned
queue_background_ingestion_task(new_id, send_ok) ==
    IF send_ok THEN <<[book_id |-> new_id]>> ELSE <<>>

\* a create_book that turned a failed send into an error response
create_book_send_checked(cat, next, data, db_ok, send_ok) ==
    IF db_ok /\ send_ok
    THEN Handled(Response(200, <<next>>),
                 cat @@ (next :> Book(data.author, data.title, StoredStatus(data))),
                 next + 1, queue_background_ingestion_task(next, send_ok))
    ELSE Handled(Response(404, <<>>), cat, next, <<>>)

\* db::create_book: insert ... returning id
\* rest::create_book: the new id once the insert succeeded, whatever the send
\* did; 404 when the insert failed
create_book(cat, next, data, db_ok, send_ok) ==
    IF db_ok
    THEN Handled(Response(200, <<next>>),
                 cat @@ (next :> Book(data.author, data.title, StoredStatus(data))),
                 next + 1, queue_background_ingestion_task(next, send_ok))
    ELSE Handled(Response(404, <<>>), cat, next, <<>>)

\* get_matching_error_injection_config: the rows of the method are read, and
\* the one whose pattern matches the path is the result; None when the query
\* fails or no pattern matches
get_matching_error_injection_config(table, route, store_ok) ==
    IF store_ok /\ table.present /\ table.route = route THEN table ELSE NoConfig

\* StatusCode::from_u16(code).unwrap_or(INTERNAL_SERVER_ERROR)
InjectedStatus(code) == IF code >= 100 /\ code <= 999 THEN code ELSE 500

\* status_code.canonical_reason().unwrap_or("Injected Error")
CanonicalReason(status) ==
    CASE status = 500 -> "Internal Server Error"
      [] status = 503 -> "Service Unavailable"
      [] OTHER -> "Injected Error"

\* config.error_message.unwrap_or_else(..)
InjectedBody(config) ==
    IF config.error_message = "none"
    THEN <<CanonicalReason(InjectedStatus(config.error_code))>>
    ELSE <<config.error_message>>

\* a middleware that injected whenever a configuration matched
Injects_always(config, random) == config.present

\* random_value < config.error_rate, for the matching configuration; random is
\* the draw of rng.random() in hundredths, at least 0 and less than 100
Injects(config, random) == config.present /\ random < config.error_rate

\* error_injection_middleware: when it injects, the response is the configured
\* error and the rest of the stack does not run
error_injection_middleware(config, random, inner) ==
    IF Injects(config, random)
    THEN Response(InjectedStatus(config.error_code), InjectedBody(config))
    ELSE inner

\* the traceparent of a request to bookapp: none, or that of a remote caller
RouterTraceparents == {<<>>, ValidSample}

\* the fields the propagator writes for the current span of the request
CurrentFields(server) ==
    InjectedFields(IF server.otel THEN OwnContext(server) ELSE InvalidContext)

\* OtelInResponseLayer: the context of the current span is injected into the
\* headers of the response
OtelInResponseLayer(current, resp) == [resp EXCEPT !.headers = @ \o current]

\* a router whose error injection layer was added after OtelInResponseLayer
router_injection_outside(current, config, random, inner) ==
    IF Injects(config, random)
    THEN error_injection_middleware(config, random, inner)
    ELSE OtelInResponseLayer(current, inner)

\* router: OtelAxumLayer, then OtelInResponseLayer, then the error injection
\* middleware, around the book service
router(current, config, random, inner) ==
    OtelInResponseLayer(current, error_injection_middleware(config, random, inner))

\* what reaches the router with one request: its traceparent, whether the
\* query of the configurations succeeds, and the random draw; OtelAxumLayer
\* opens the server span
Arrivals ==
    {[server |-> ServerSpan(tp, IdBase(1)), store_ok |-> ok, random |-> x,
      current |-> CurrentFields(ServerSpan(tp, IdBase(1)))] :
        tp \in RouterTraceparents, ok \in BOOLEAN, x \in {0, 99}}

\* the arrivals told apart for a route: the query of the configurations fails
\* where a row would have matched, the draw varies where one did
Draws(table, route) ==
    {a \in Arrivals :
        /\ a.store_ok \/ get_matching_error_injection_config(table, route, TRUE).present
        /\ a.random = 0 \/ get_matching_error_injection_config(table, route, a.store_ok).present}

\* one request served by the router: the handler unless an error is injected,
\* the response through the layers
Serve(a, route, id, data, h, db_ok, send_ok) ==
    LET config == get_matching_error_injection_config(store, route, a.store_ok)
        inj == Injects(config, a.random) IN
    /\ a \in Draws(store, route)
    /\ catalog' = IF inj THEN catalog ELSE h.catalog
    /\ next_id' = IF inj \/ route # "create_book" THEN next_id ELSE h.next_id
    /\ topic' = IF inj THEN topic ELSE topic \o h.sent
    /\ served' = [route |-> route, id |-> id, data |-> data, db |-> db_ok, injected |-> inj,
                  sent |-> send_ok, server |-> a.server, store_ok |-> a.store_ok,
                  resp |-> router(a.current, config, a.random, h.resp)]
    /\ UNCHANGED <<store, notRouter>>

\* GET /books/{id}
R_GetBook ==
    \E a \in Arrivals, id \in PathIds, db_ok \in BOOLEAN :
        Serve(a, "get_book", id, NoData,
              Handled(get_book(catalog, id, db_ok), catalog, 0, <<>>), db_ok, FALSE)

\* DELETE /books/{id}
R_DeleteBook ==
    \E a \in Arrivals, id \in PathIds, db_ok \in BOOLEAN :
        Serve(a, "delete_book", id, NoData, delete_book(catalog, id, db_ok), db_ok, FALSE)

\* PATCH /books/{id}
R_UpdateBook ==
    \E a \in Arrivals, id \in PathIds, data \in BookCreateIn, db_ok \in BOOLEAN :
        Serve(a, "update_book", id, data, update_book(catalog, id, data, db_ok), db_ok, FALSE)

\* POST /books/add
R_CreateBook ==
    /\ next_id <= MaxBookId
    /\ \E a \in Arrivals, data \in BookCreateIn, db_ok \in BOOLEAN, send_ok \in BOOLEAN :
        Serve(a, "create_book", next_id, data,
              create_book(catalog, next_id, data, db_ok, send_ok), db_ok, send_ok)

(***************************************************************************)
(* RequestCarrier::set of the client on requests that already have headers.*)
(***************************************************************************)
\* header names of a request, as the HeaderMap keeps them
HeaderNames == {"accept", "traceparent"}

\* header values; the last one has a character HeaderValue::from_str rejects
LegalValues == {<<"a">>, <<"b">>}

IllegalValue == <<"\n">>

\* the keys a caller passes to set; the last one is no header name
LegalKeys == {"traceparent", "Traceparent", "TRACEPARENT", "accept"}

IllegalKey == "trace parent"

RECURSIVE HeaderLists(_)
\* the header lists of at most n entries
HeaderLists(n) ==
    IF n = 0 THEN {<<>>}
    ELSE LET shorter == HeaderLists(n - 1) IN
         shorter \cup {Append(h, [key |-> k, value |-> v]) :
                          h \in shorter, k \in HeaderNames, v \in LegalValues}

\* a reqwest::Request: method, url and headers
Request(method, url, headers) == [method |-> method, url |-> url, headers |-> headers]

NoCall == [key |-> "", value |-> <<>>]

SetIdle ==
    /\ rc_pc = "off" /\ rc_request = Request("", "", <<>>)
    /\ rc_before = Request("", "", <<>>) /\ rc_call = NoCall

\* a request built by the client, before the pre-hook runs
SetInit ==
    /\ rc_pc = "built"
    /\ rc_request \in {Request("GET", "/books/1", h) : h \in HeaderLists(MaxRequestHeaders)}
    /\ rc_before = rc_request /\ rc_call = NoCall

notSet == <<carrierVars, spanVars, sentryVars, dispatchVars, consumerVars, mainVars, httpVars, installVars, routerVars>>

\* a set_inner that took every key and value
IsLegal_unchecked(key, value) == TRUE

\* HeaderName::from_str(key).expect, HeaderValue::from_str(&value).expect
IsLegal(key, value) == key \in LegalKeys /\ value \in LegalValues

\* RequestCarrier::set_inner on the request of the carrier
set_inner(request, key, value) ==
    [request EXCEPT !.headers = RequestCarrier_set(@, key, value)]

\* Injector::set is called on the carrier of the request; the expects panic on
\* a key or a value that is not legal
RC_Set ==
    /\ rc_pc \in {"built", "set"}
    /\ \E key \in LegalKeys \cup {IllegalKey}, value \in LegalValues \cup {IllegalValue} :
         /\ rc_call' = [key |-> key, value |-> value]
         /\ rc_before' = rc_request
         /\ IF IsLegal(key, value)
            THEN rc_pc' = "set" /\ rc_request' = set_inner(rc_request, key, value)
            ELSE rc_pc' = "panicked" /\ rc_request' = rc_request
    /\ UNCHANGED notSet

(***************************************************************************)
(* Specifications.                                                         *)
(***************************************************************************)
InitCarrier == CarrierInit /\ TraceIdle /\ ConsumerIdle /\ MainIdle /\ HttpIdle /\ InstallIdle /\ RouterIdle /\ SetIdle

NextCarrier == RT_Inject \/ RT_IntoOwned \/ RT_Extract

SpecCarrier == InitCarrier /\ [][NextCarrier]_vars

InitBridge == BridgeInit /\ CarrierIdle /\ ConsumerIdle /\ MainIdle /\ HttpIdle /\ InstallIdle /\ RouterIdle /\ SetIdle

NextBridge == B_NewSpan \/ B_ServerSpan \/ B_Exit \/ B_Emit \/ B_Layer \/ B_Done

SpecBridge == InitBridge /\ [][NextBridge]_vars

InitConsumer == ConsumerInit /\ CarrierIdle /\ MainIdle /\ HttpIdle /\ InstallIdle /\ RouterIdle /\ SetIdle

NextConsumer == C_RecvErr \/ C_Recv(Messages) \/ C_Process \/ C_Commit \/ C_LoopEnd

SpecConsumer == InitConsumer /\ [][NextConsumer]_vars

InitMain == MainInit /\ CarrierIdle /\ TraceIdle /\ ConsumerIdle /\ HttpIdle /\ InstallIdle /\ RouterIdle /\ SetIdle

NextMain == M_InitTracing \/ M_InitDb \/ M_Admin \/ M_EnsureTopic \/ M_Producer
              \/ M_Serve \/ M_Shutdown \/ M_Done

SpecMain == InitMain /\ [][NextMain]_vars

InitHttp == HttpInit /\ CarrierIdle /\ TraceIdle /\ ConsumerIdle /\ MainIdle /\ InstallIdle /\ RouterIdle /\ SetIdle

NextHttp == Handle \/ Send

SpecHttp == InitHttp /\ [][NextHttp]_vars

InitInstall == InstallInit /\ CarrierIdle /\ TraceIdle /\ ConsumerIdle /\ MainIdle /\ HttpIdle /\ RouterIdle /\ SetIdle

NextInstall == Install

SpecInstall == InitInstall /\ [][NextInstall]_vars

InitRouter == RouterInit /\ CarrierIdle /\ TraceIdle /\ ConsumerIdle /\ MainIdle /\ HttpIdle /\ InstallIdle /\ SetIdle

NextRouter == R_GetBook \/ R_DeleteBook \/ R_UpdateBook \/ R_CreateBook

SpecRouter == InitRouter /\ [][NextRouter]_vars

InitSet == SetInit /\ CarrierIdle /\ TraceIdle /\ ConsumerIdle /\ MainIdle /\ HttpIdle /\ InstallIdle /\ RouterIdle

NextSet == RC_Set

SpecSet == InitSet /\ [][NextSet]_vars

InitProcess == MainInit /\ CarrierIdle /\ TraceIdle /\ ConsumerIdle /\ HttpIdle /\ InstallIdle /\ RouterIdle /\ SetIdle

NextProcess == NextMain \/ P_Start \/ P_Consume

SpecProcess == InitProcess /\ [][NextProcess]_vars

InitInflight == HttpInit /\ CarrierIdle /\ TraceIdle /\ ConsumerIdle /\ MainIdle /\ InstallIdle /\ RouterIdle /\ SetIdle

NextInflight == HandleInflight \/ SendInflight

SpecInflight == InitInflight /\ [][NextInflight]_vars

(***************************************************************************)
(* Properties.                                                             *)
(***************************************************************************)
\* the key is "traceparent" whatever its letter case
IsTraceparentKey(k) == AsciiLower(k) = "traceparent"

TraceparentEntries(h) == {i \in 1..Len(h.entries) : IsTraceparentKey(h.entries[i].key)}

\* the headers carry the producer context P and nothing else: every traceparent
\* entry is the rendering of P, and no header value is absent
CarriesContext(h, P) ==
    /\ h.present
    /\ TraceparentEntries(h) # {}
    /\ \A i \in TraceparentEntries(h) : h.entries[i].value = TextValue(TraceparentText(P))
    /\ \A i \in 1..Len(h.entries) : h.entries[i].value.kind # "null"

AfterBridge == ev.active /\ ev.next > 1 /\ Layers[ev.next - 1] = "correlation"

\* severity l is at or above severity min: ERROR is above WARN, WARN above INFO
AtOrAboveSeverity(l, min) ==
    LET Severity(x) == CASE x = "TRACE" -> 1 [] x = "DEBUG" -> 2 [] x = "INFO" -> 3
                         [] x = "WARN" -> 4 [] x = "ERROR" -> 5 IN
    Severity(l) >= Severity(min)

\* the event was emitted in a span that has a valid trace context of its own
InTracedSpan == ev.span # 0 /\ spans[ev.span].otel /\ IsValid(OwnContext(spans[ev.span]))

\* C2: after the correlation layer handled an event of severity WARN or ERROR
\* emitted in a span with a valid context (a root span included), the scope's
\* otel.trace_id is the 32-hex rendering of that span's trace id.
C2_TraceTagAtOrAboveThreshold ==
    (AfterBridge /\ AtOrAboveSeverity(ev.level, "WARN") /\ InTracedSpan)
        => scope.trace = HexFmt(spans[ev.span].trace_id, TraceIdHexLen)

\* C3: whenever the correlation layer writes tags for an event, otel.span_id is
\* the 16-hex id of the span the event was emitted in.
C3_SpanTagIsEventSpan ==
    (AfterBridge /\ ev.wrote) => scope.span = HexFmt(spans[ev.span].span_id, SpanIdHexLen)

\* C4: for an event of severity INFO, DEBUG or TRACE, on_event does not call
\* correlate_with_sentry and leaves the scope as it was.
C4_BelowThresholdUntouched ==
    (AfterBridge /\ ~AtOrAboveSeverity(ev.level, "WARN"))
        => (~ev.called /\ scope = ev.before)

\* the event is outside any span, or in a span without OpenTelemetry data or
\* without a valid context
NoContextForBridge == ev.span = 0 \/ ~InTracedSpan

\* C5: an event of any severity emitted outside any span, or in a span without
\* OpenTelemetry data or with an invalid context, leaves the scope exactly as
\* it was.
C5_NoContextNoTagging == (AfterBridge /\ NoContextForBridge) => scope = ev.before

\* correlate_with_sentry ran for an event in a span without OpenTelemetry data,
\* with tags of an earlier event in the scope, and changed nothing
C5_Witness ==
    /\ AfterBridge /\ ev.called
    /\ ev.span # 0 /\ ~spans[ev.span].otel
    /\ scope.trace # NoTag /\ scope = ev.before

\* the place of a layer in the order the subscriber was assembled in
ChainRank(l) == CASE l = "console" -> 1 [] l = "otel" -> 2 [] l = "correlation" -> 3
                  [] l = "sentry" -> 4 [] l = "otel_log" -> 5 [] l = "metrics" -> 6
                  [] l = "stdout" -> 7

\* every layer has been offered the event
DispatchComplete == ev.active /\ ev.next > 7

ShutdownOrder == [i \in 1..Len(m_calls) |-> m_calls[i].provider]

\* C7: shutdown is invoked on the trace, meter and log providers in that order;
\* once shutdown has begun main leaves only after all three calls, whichever of
\* them failed; every failure is logged as an error; main returns Ok.
C7_ShutdownAllAttempted ==
    /\ ShutdownOrder = SubSeq(<<"trace", "meter", "log">>, 1, Len(m_calls))
    /\ \A i \in 1..Len(m_calls) :
         m_calls[i].result = "Err"
            => \E k \in 1..Len(m_log) : m_log[k] = Log("ERROR", m_calls[i].provider)
    /\ (m_pc \in {"drop_guard", "exited"} /\ m_calls # <<>>) => Len(m_calls) = 3
    /\ (m_pc = "exited" /\ m_calls # <<>>) => m_ret = "Ok"

\* main returned after the meter provider's shutdown failed and the two others
\* succeeded
C7_Witness ==
    /\ m_pc = "exited" /\ m_ret = "Ok"
    /\ [i \in 1..Len(m_calls) |-> m_calls[i].result] = <<"Ok", "Err", "Ok">>

\* the traceparent values among the headers of an outbound request
OutboundTraceparents(o) ==
    {o.headers[i].value : i \in {k \in 1..Len(o.headers) : o.headers[k].key = "traceparent"}}

\* C8: every request the generated client executed while a request with a valid
\* traceparent (trace id T, span id S) was handled went through the injection
\* hook first and carries one traceparent, with trace id T and a span id other
\* than S.
C8_OutboundContinuesTrace ==
    /\ \A r \in Requests :
         LET inbound == ParseTraceparent(reqs[r].traceparent) IN
         IsValid(inbound) =>
            \A o \in {x \in outbound : x.req = r} :
               /\ Cardinality(OutboundTraceparents(o)) = 1
               /\ \A v \in OutboundTraceparents(o) :
                    LET sent == ParseTraceparent(v) IN
                    /\ IsValid(sent)
                    /\ sent.trace_id = inbound.trace_id
                    /\ sent.span_id # inbound.span_id
    /\ \A r \in Requests : \A i \in 1..Len(reqs[r].calls) :
         /\ reqs[r].calls[i].pc \in {"spawned", "built", "injected"}
              => ~\E o \in outbound : o.req = r /\ o.call = i
         /\ reqs[r].calls[i].pc = "done"
              => \E o \in outbound : o.req = r /\ o.call = i

\* a spawned task of a request with a valid traceparent executed its request
C8_Witness ==
    \E o \in outbound :
        /\ o.call > 1
        /\ ParseTraceparent(reqs[o.req].traceparent).trace_id = MaxRemoteId
        /\ reqs[o.req].pc = "responded"
        /\ OutboundTraceparents(o) # {}

\* C9: a valid context injected with VecInjector, converted with
\* into_owned_headers and extracted with HeaderExtractor comes back with the
\* same trace id, span id and flags.
C9_RoundTrip ==
    (rt_pc = "extracted" /\ IsValid(rt_cx)) =>
        /\ ~rt_out.panic
        /\ rt_out.cx.trace_id = rt_cx.trace_id
        /\ rt_out.cx.span_id = rt_cx.span_id
        /\ rt_out.cx.flags = rt_cx.flags

\* a sampled context with a locally drawn trace id made the round trip
C9_Witness ==
    /\ rt_pc = "extracted"
    /\ rt_cx.trace_id = NewId(1) /\ rt_cx.span_id = MaxRemoteId /\ rt_cx.flags = 1
    /\ IsValid(rt_out.cx)

\* the header collection is absent, has no traceparent entry, or has only
\* traceparent values that do not match {2hex}-{32hex}-{16hex}-{2hex}
NoContextHeaders(h) ==
    \/ ~h.present
    \/ TraceparentEntries(h) = {}
    \/ \A i \in TraceparentEntries(h) :
         /\ h.entries[i].value.kind = "text"
         /\ ~MatchesTraceparent(h.entries[i].value.text)

\* the iteration for the current message is over
IterationOver == c_pc \in {"skipped", "committed", "returned", "panicked"}

\* what C10 promises for the current message
NoContextOutcome ==
    /\ ~c_last.panic
    /\ c_last.spanned =>
         /\ ~IsValid(c_last.cx)
         /\ spans[1].name = "book_ingestion"
         /\ ~IsValid(spans[1].parent)
         /\ spans[1].links = <<>>
    /\ IterationOver =>
         /\ c_last.spanned
         /\ c_last.processed # "no"
         /\ c_last.commit # "none"

\* C10 as stated: every consumed message without a valid traceparent gets a
\* book_ingestion span without parent and without link, is processed, and
\* commit_message is called for it.
C10_NoContextStillCommitted ==
    (c_msg.active /\ NoContextHeaders(c_msg.headers)) => NoContextOutcome

\* C10: every consumed message without a valid traceparent whose payload is
\* absent or valid UTF-8 gets a book_ingestion span without parent and without
\* link, is processed, and commit_message is called for it.
C10_NoContextUtf8Committed ==
    (c_msg.active /\ NoContextHeaders(c_msg.headers) /\ c_msg.payload # "bytes")
        => NoContextOutcome

\* a message with a malformed traceparent and no payload was committed
C10_Witness ==
    /\ c_msg.active /\ c_pc = "committed"
    /\ c_msg.payload = "none"
    /\ c_msg.headers.present /\ TraceparentEntries(c_msg.headers) # {}
    /\ NoContextHeaders(c_msg.headers)
    /\ spans[1].links = <<>>

\* the letter casings a caller can use for the key "traceparent"
KeyCasings == {"traceparent", "Traceparent", "TRACEPARENT"}

\* the entries of h whose key matches k case-insensitively, in transport order
MatchingEntries(h, k) == {i \in 1..Len(h.entries) : EqIgnoreAsciiCase(h.entries[i].key, k)}

\* the value of the first entry of h whose key matches k, as get would hand it
\* out: Some(text) for a text value, None when there is no such entry or its
\* value is not text
FirstMatch(h, k) ==
    IF MatchingEntries(h, k) = {} THEN GetNone
    ELSE LET f == CHOOSE i \in MatchingEntries(h, k) : \A j \in MatchingEntries(h, k) : i <= j IN
         IF h.entries[f].value.kind = "text" THEN GetSome(h.entries[f].value.text) ELSE GetNone

\* C11: for the headers of every message the consumer extracted from,
\* HeaderExtractor.get returns the same result for every letter casing of the
\* key, and that result is the value of the first header whose key matches
\* case-insensitively.
C11_GetFirstMatchAnyCase ==
    (c_msg.active /\ c_pc # "skipped") =>
        \A k \in KeyCasings :
            /\ HeaderExtractor_get(c_msg.headers, k) = HeaderExtractor_get(c_msg.headers, "traceparent")
            /\ HeaderExtractor_get(c_msg.headers, k) = FirstMatch(c_msg.headers, k)

\* C13: whenever main has returned, shutdown has been invoked on the trace,
\* meter and log providers.
C13_ShutdownOnEveryReturn ==
    m_pc = "exited" => ShutdownOrder = Providers

\* C19: GET /books responds 200 for every state of the catalog, the empty one
\* included: no request whose database read returned zero books ends in a
\* panic of the handler instead of a response.
C19_GetAllBooksAnyCatalog ==
    \A r \in Requests : ~(reqs[r].pc = "panicked" /\ reqs[r].nbooks = 0)

\* the iteration's book_ingestion span has ended: it is the last ended span,
\* with error status
EndedWithError(sp, ended) ==
    /\ ended # <<>>
    /\ ended[Len(ended)] = [name |-> "book_ingestion", span_id |-> sp.span_id, status |-> "error"]

C15_SendFailureKeepsResult ==
    served.route = "create_book" /\ ~served.injected /\ served.db =>
        /\ served.resp.status = 200 /\ served.resp.body = <<served.id>>
        /\ served.id \in DOMAIN catalog
        /\ catalog[served.id].author = served.data.author
        /\ catalog[served.id].title = served.data.title

\* a book was created while the send of its ingestion message failed
C15_Witness ==
    /\ served.route = "create_book" /\ ~served.injected /\ served.db /\ ~served.sent
    /\ served.resp.status = 200 /\ served.id \in DOMAIN catalog
    /\ \A i \in 1..Len(topic) : topic[i].book_id # served.id

TraceparentHeaders(resp) ==
    {resp.headers[i].value :
        i \in {k \in 1..Len(resp.headers) : resp.headers[k].key = "traceparent"}}

\* C16: every response of the router, the error of the error injection
\* middleware included, carries one traceparent header; its trace-id segment
\* is 32 hexadecimal characters and is the trace id of the request's server
\* span.
C16_ResponseCarriesTraceparent ==
    served.route # "none" =>
        /\ Cardinality(TraceparentHeaders(served.resp)) = 1
        /\ \A v \in TraceparentHeaders(served.resp) :
              /\ MatchesTraceparent(v)
              /\ Len(Segments(v)[2]) = TraceIdHexLen
              /\ IsLowerHex(Segments(v)[2])
              /\ HexVal(Segments(v)[2]) = served.server.trace_id
              /\ served.server.trace_id # 0

\* the error injection middleware answered a request that carried no
\* traceparent with a 500, and the response names the trace of the server span
C16_Witness ==
    /\ served.injected /\ served.resp.status = 500
    /\ served.server.parent = InvalidContext
    /\ \E v \in TraceparentHeaders(served.resp) :
          ParseTraceparent(v).trace_id = served.server.trace_id

\* C17: a PATCH of an id that is not in the catalog answers 200 with body 0 and
\* a DELETE of such an id answers 200, both leaving the catalog as it was; a
\* GET of an id that is not in the catalog answers 404, and after a DELETE that
\* answered 200 the id is not in the catalog.  The requests are those the
\* handler answers with the database reachable.
C17_MissingIds ==
    [][LET s == served' IN
       ~s.injected /\ s.db =>
          /\ s.route = "update_book" /\ s.id \notin DOMAIN catalog =>
                s.resp.status = 200 /\ s.resp.body = <<0>> /\ catalog' = catalog
          /\ s.route = "delete_book" /\ s.id \notin DOMAIN catalog =>
                s.resp.status = 200 /\ catalog' = catalog
          /\ s.route = "delete_book" =>
                /\ s.resp.status = 200 /\ s.id \notin DOMAIN catalog'
                /\ \A i \in DOMAIN catalog \ {s.id} :
                      i \in DOMAIN catalog' /\ catalog'[i] = catalog[i]
          /\ s.route = "get_book" /\ s.id \notin DOMAIN catalog =>
                s.resp.status = 404 /\ catalog' = catalog
          /\ s.route = "get_book" /\ s.id \in DOMAIN catalog =>
                s.resp.status = 200]_vars

\* a GET answered 404 for the id of a book that was created and then deleted
C17_Witness ==
    /\ served.route = "get_book" /\ ~served.injected /\ served.db
    /\ served.resp.status = 404
    /\ served.id \in BookIds /\ served.id < next_id /\ served.id \notin DOMAIN catalog

\* C18: a POST /books/add with an author and a title answers 201 Created with
\* the new id, and the book stored under that id has that author, that title
\* and the status available.
C18_CreateAnswersCreated ==
    /\ served.route = "create_book" /\ ~served.injected /\ served.db
    /\ served.data.status = "none"
    => /\ served.resp.status = 201 /\ served.resp.body = <<served.id>>
       /\ served.id \in DOMAIN catalog
       /\ catalog[served.id] = Book(served.data.author, served.data.title, "available")

\* the values of the headers of the request whose name is n, in their order
ValuesOf(request, n) ==
    LET hs == SelectSeq(request.headers, LAMBDA h : h.key = n) IN
    [i \in 1..Len(hs) |-> hs[i].value]

\* C20: after set(k, v) with a legal name and value the request has exactly one
\* header named k, whatever the letter case of k and whatever the request had
\* under that name, and its value is v; the headers of every other name, the
\* method and the url are as before.
C20_SetReplacesHeader ==
    rc_pc = "set" =>
        LET k == AsciiLower(rc_call.key) IN
        /\ ValuesOf(rc_request, k) = <<rc_call.value>>
        /\ \A n \in HeaderNames \ {k} : ValuesOf(rc_request, n) = ValuesOf(rc_before, n)
        /\ \A i \in 1..Len(rc_request.headers) : rc_request.headers[i].key \in HeaderNames
        /\ rc_request.method = rc_before.method /\ rc_request.url = rc_before.url

\* set was called with a key in capitals on a request that had two values
\* under that name and a header of another name
C20_Witness ==
    /\ rc_pc = "set" /\ rc_call.key = "TRACEPARENT"
    /\ Len(ValuesOf(rc_before, "traceparent")) = 2
    /\ rc_call.value \notin {rc_before.headers[i].value : i \in 1..Len(rc_before.headers)}
    /\ Len(ValuesOf(rc_request, "traceparent")) = 1

\* C21: a set whose key is no header name or whose value is no header value
\* panics; it never returns, and the request is not changed.
C21_IllegalInputPanics ==
    rc_call.key = IllegalKey \/ rc_call.value = IllegalValue =>
        rc_pc = "panicked" /\ rc_request = rc_before

\* set was called with a legal key and a value that is no header value, on a
\* request that had headers, and panicked
C21_Witness ==
    /\ rc_pc = "panicked" /\ rc_call.key = "traceparent" /\ rc_call.value = IllegalValue
    /\ rc_request.headers # <<>>

\* C30: a PATCH of a book of the catalog leaves the status of the book and
\* every other book of the catalog as they were.
C30_UpdateKeepsStatus ==
    [][LET s == served' IN
       /\ s.route = "update_book" /\ ~s.injected /\ s.db
       /\ s.id \in DOMAIN catalog
       => /\ DOMAIN catalog' = DOMAIN catalog
          /\ catalog'[s.id].status = catalog[s.id].status
          /\ \A i \in DOMAIN catalog \ {s.id} : catalog'[i] = catalog[i]]_vars

\* C29: for the headers of every message the consumer received,
\* HeaderExtractor.get returns a value or None and does not panic, and keys is
\* empty when the message has no header collection.
C29_GetNeverPanics ==
    c_msg.active =>
        /\ \A k \in KeyCasings : HeaderExtractor_get(c_msg.headers, k).kind \in {"some", "none"}
        /\ (~c_msg.headers.present => HeaderExtractor_keys(c_msg.headers) = <<>>)

\* the commit_message calls made for the message in hand
CommitsOfMessage == {i \in 1..Len(commits) : commits[i].id = c_received}

\* C27: commit_message is called at most once per message; once the iteration
\* of a message is over it has been called exactly when the payload is absent
\* or valid UTF-8, and then after the in-span processing; a message whose
\* payload is not valid UTF-8 got no span and no commit.
C27_CommitAfterProcessing ==
    /\ \A i, j \in 1..Len(commits) : commits[i].id = commits[j].id => i = j
    /\ (c_msg.active /\ CommitsOfMessage # {} => c_last.processed # "no")
    /\ (c_pc \in {"committed", "returned", "skipped", "panicked"} =>
          /\ CommitsOfMessage # {} <=> ~payload_view(c_msg.payload).skip
          /\ payload_view(c_msg.payload).skip => spans = <<>> /\ ~c_last.spanned)

\* C28: an error of consumer.recv() leaves the loop at recv with the error
\* reported; a commit_message error is the last commit of the run and
\* run_consumer has returned; once it has returned nothing is received or
\* committed any more.
C28_CommitErrorEndsConsumer ==
    /\ [](\A i \in 1..Len(commits) :
             commits[i].result = "Err" => i = Len(commits) /\ c_pc = "returned")
    /\ [][/\ (c_pc = "recv" /\ c_received' # c_received /\ ~c_msg'.active =>
                 c_pc' = "recv" /\ commits' = commits /\ reports' # reports)
          /\ (c_pc = "returned" =>
                 c_pc' = "returned" /\ c_received' = c_received /\ commits' = commits)]_vars

\* run_consumer returned on the error of its only commit, made for the last
\* message, after an earlier recv had failed and been reported
C28_Witness ==
    /\ c_pc = "returned"
    /\ Len(commits) = 1 /\ commits[1].result = "Err" /\ commits[1].id = MaxMessages
    /\ Len(reports) >= 2

\* the row of the table matches the method and path of the request served
C22_Matches == store.present /\ store.route = served.route

C23_ReportOutsideSpanUntagged ==
    \A i \in 1..Len(reports) :
        reports[i].span = 0 => (reports[i].trace = NoTag /\ reports[i].span_tag = NoTag)

C25_NoOpenSpanAtShutdown ==
    [][(m_calls = <<>> /\ m_calls' # <<>>) => \A i \in 1..Len(spans) : ~spans[i].open]_vars

====
